---- MODULE Spec2Model ----
(***************************************************************************)
(* Model of the gpsd_proto client (src/src/lib.rs): the handshake with     *)
(* gpsd, the streaming reader get_data, the serde decoding of one line of  *)
(* JSON into the handshake union, the payload union and the unified union, *)
(* and the serialization of a decoded value (feature "serialize").         *)
(* Spec is one connection, TwoSpec two connections whose threads           *)
(* interleave, CodecSpec the decoding and serialization of one line.       *)
(*                                                                         *)
(* A line is kept as what the JSON parser sees: whether the text is one    *)
(* well-formed JSON object, and for an object the wire value of each field *)
(* the schemas read.  Decoding is computed field by field as the derived   *)
(* Deserialize implementations and the two custom field decoders do it.    *)
(***************************************************************************)
EXTENDS Integers, Sequences, FiniteSets, TLC

(***************************************************************************)
(* Bounds of the model.                                                    *)
(***************************************************************************)
\* proto_major values 0..MaxMajor are offered on the wire (besides 255, 256)
MaxMajor == 4
\* integer wire values up to MaxWireInt are offered for `mode` and `activated`
MaxWireInt == 3
\* number of get_data calls made on one reader
MaxCalls == 2

(***************************************************************************)
(* Program constants.                                                      *)
(***************************************************************************)
PROTO_MAJOR_MIN == 3

ENABLE_WATCH_CMD ==
  << "?", "W", "A", "T", "C", "H", "=", "{",
     "\"", "e", "n", "a", "b", "l", "e", "\"", ":", "t", "r", "u", "e", ",",
     "\"", "j", "s", "o", "n", "\"", ":", "t", "r", "u", "e", "}", ";",
     "\r", "\n" >>

\* largest value of Rust's u8
U8_MAX == 255

\* largest value of Rust's i16
I16_MAX == 32767

(***************************************************************************)
(* JSON values on the wire.  t is the JSON type of the value ("absent":    *)
(* the object has no such key), n its number, s its text, items the        *)
(* elements of an array (each element an object: a satellite row, or the   *)
(* wire value of the one field of it that a custom decoder reads).         *)
(***************************************************************************)
Leaf(t, n, s) == [t |-> t, n |-> n, s |-> s]
JV(t, n, s, items) == [t |-> t, n |-> n, s |-> s, items |-> items]

Absent == JV("absent", 0, "", << >>)
JNull == JV("null", 0, "", << >>)
JBool(b) == JV("bool", IF b THEN 1 ELSE 0, "", << >>)
JInt(n) == JV("int", n, "", << >>)
JFloat(s) == JV("float", 0, s, << >>)
JStr(s) == JV("str", 0, s, << >>)
JArr(items) == JV("arr", 0, "", items)

LeafOf(v) == Leaf(v.t, v.n, v.s)

\* one element of `satellites` on the wire
SatRow(prn, used, el) == [PRN |-> prn, used |-> used, el |-> el]

(***************************************************************************)
(* Decoded optional values: Rust's Option<bool>, Option<String>.           *)
(***************************************************************************)
None == [some |-> FALSE, n |-> 0, s |-> ""]
SomeBool(b) == [some |-> TRUE, n |-> IF b THEN 1 ELSE 0, s |-> ""]
SomeStr(s) == [some |-> TRUE, n |-> 0, s |-> s]

SomeNum(n) == [some |-> TRUE, n |-> n, s |-> ""]

\* Option<bool>::unwrap_or(false)
UnwrapOrFalse(o) == o.some /\ o.n = 1

\* the outcome of decoding one field: ok, and the value when ok
FOk(v) == [ok |-> TRUE, v |-> v]
FErr == [ok |-> FALSE, v |-> None]

(***************************************************************************)
(* serde's decoders of the field types the schemas use.  A field of type   *)
(* Option<T> takes an absent key and a JSON null as None; a field of any   *)
(* other type is required.                                                 *)
(***************************************************************************)
DeOptBool(v) ==
  IF v.t \in {"absent", "null"} THEN FOk(None)
  ELSE IF v.t = "bool" THEN FOk(SomeBool(v.n = 1))
  ELSE FErr

DeOptStr(v) ==
  IF v.t \in {"absent", "null"} THEN FOk(None)
  ELSE IF v.t = "str" THEN FOk(SomeStr(v.s))
  ELSE FErr

DeString(v) == IF v.t = "str" THEN FOk(SomeStr(v.s)) ELSE FErr

DeBool(v) == IF v.t = "bool" THEN FOk(SomeBool(v.n = 1)) ELSE FErr

DeU8(v) ==
  IF v.t = "int" /\ v.n >= 0 /\ v.n <= U8_MAX THEN FOk(SomeNum(v.n)) ELSE FErr

\* u32: no wire integer of the model exceeds its range
DeU32(v) == IF v.t = "int" /\ v.n >= 0 THEN FOk(SomeNum(v.n)) ELSE FErr

\* f32 takes any JSON number; the decoded number is kept as the wire gave it
DeF32(v) ==
  IF v.t \in {"int", "float"} THEN FOk([some |-> TRUE, n |-> v.n, s |-> v.s])
  ELSE FErr

DeOptF32(v) == IF v.t \in {"absent", "null"} THEN FOk(None) ELSE DeF32(v)

\* i16 (Satellite::prn)
DeI16(v) ==
  IF v.t = "int" /\ v.n >= -I16_MAX - 1 /\ v.n <= I16_MAX THEN FOk(SomeNum(v.n))
  ELSE FErr

\* mutant: the field is not read from the wire
DeOptF64_Skipped(v) == FOk(None)

DeOptF64(v) ==
  IF v.t \in {"absent", "null"} THEN FOk(None)
  ELSE IF v.t = "float" THEN FOk(SomeStr(v.s))
  ELSE IF v.t = "int" THEN FOk(SomeNum(v.n))
  ELSE FErr

(***************************************************************************)
(* option_str_or_zero: the visitor OptionOrZero is driven by               *)
(* deserialize_any, which calls visit_str for a string, visit_u64 or       *)
(* visit_i64 for an integer, and for every other JSON type a visit method  *)
(* the visitor does not define, whose default is an error.  The field is   *)
(* marked serde(default): an absent key is None without the decoder.       *)
(***************************************************************************)
\* mutant: every integer is taken as "not activated"
option_str_or_zero_AnyInt(v) ==
  IF v.t = "str" THEN FOk(SomeStr(v.s))
  ELSE IF v.t = "int" THEN FOk(None)
  ELSE FErr

option_str_or_zero(v) ==
  IF v.t = "str" THEN FOk(SomeStr(v.s))
  ELSE IF v.t = "int" THEN (IF v.n = 0 THEN FOk(None) ELSE FErr)
  ELSE FErr

DeActivated(v) == IF v.t = "absent" THEN FOk(None) ELSE option_str_or_zero(v)

(***************************************************************************)
(* mode_from_str: u8::deserialize, then 2 -> Fix2d, 3 -> Fix3d, any other  *)
(* u8 -> NoFix.  The field has no serde(default): it is required.          *)
(***************************************************************************)
\* mutant: only the documented modes 1, 2, 3 are taken
mode_from_str_Strict(v) ==
  IF ~DeU8(v).ok THEN FErr
  ELSE IF v.n = 2 THEN FOk(SomeStr("Fix2d"))
  ELSE IF v.n = 3 THEN FOk(SomeStr("Fix3d"))
  ELSE IF v.n = 1 THEN FOk(SomeStr("NoFix"))
  ELSE FErr

mode_from_str(v) ==
  IF ~DeU8(v).ok THEN FErr
  ELSE IF v.n = 2 THEN FOk(SomeStr("Fix2d"))
  ELSE IF v.n = 3 THEN FOk(SomeStr("Fix3d"))
  ELSE FOk(SomeStr("NoFix"))

(***************************************************************************)
(* A JSON object as the schemas see it: the wire value of every key some   *)
(* schema reads, and of one key (`extra`) no schema knows.  The optional   *)
(* fields of the schemas that are not listed here are absent on the wire.  *)
(***************************************************************************)
NoFields ==
  [class |-> Absent, release |-> Absent, rev |-> Absent,
   proto_major |-> Absent, proto_minor |-> Absent, remote |-> Absent,
   devices |-> Absent, enable |-> Absent, json |-> Absent, nmea |-> Absent,
   path |-> Absent, activated |-> Absent, mode |-> Absent, lat |-> Absent,
   device |-> Absent, real_sec |-> Absent, real_nsec |-> Absent,
   clock_sec |-> Absent, clock_nsec |-> Absent, running |-> Absent,
   reference |-> Absent, disciplined |-> Absent, delta |-> Absent,
   active |-> Absent, tpv |-> Absent, sky |-> Absent, satellites |-> Absent,
   extra |-> Absent]

(***************************************************************************)
(* A decoded message: the variant and the decoded value of every field of  *)
(* its struct that the model carries.                                      *)
(*   activated   the decoded activation times (one per DeviceInfo of       *)
(*               Devices, one for Device)                                  *)
(*   nums        the required scalars of Pps (real_sec, real_nsec,         *)
(*               clock_sec, clock_nsec), of Osc (running, reference,       *)
(*               disciplined, delta) and of Poll (active), in this order   *)
(*   tpv, sky    the elements of Poll's two lists                          *)
(*   satellites  Option<Vec<Satellite>> of Sky                             *)
(*   raw         the serde_json::Value of Subframe                         *)
(***************************************************************************)
NoSats == [some |-> FALSE, rows |-> << >>]
SomeSats(rows) == [some |-> TRUE, rows |-> rows]

NoMsg ==
  [variant |-> "", proto_major |-> 0, enable |-> None, json |-> None,
   nmea |-> None, activated |-> << >>, mode |-> "", lat |-> None,
   release |-> None, rev |-> None, proto_minor |-> None, remote |-> None,
   device |-> None, path |-> None, nums |-> << >>, tpv |-> << >>,
   sky |-> << >>, satellites |-> NoSats, raw |-> << >>]

DOk(m) == [ok |-> TRUE, msg |-> m]
DErr == [ok |-> FALSE, msg |-> NoMsg]

(***************************************************************************)
(* The derived Deserialize of each struct: every field is decoded by its   *)
(* type; keys the struct does not name are skipped.                        *)
(***************************************************************************)
Version(o) ==
  IF /\ DeString(o.release).ok
     /\ DeString(o.rev).ok
     /\ DeU8(o.proto_major).ok
     /\ DeU8(o.proto_minor).ok
     /\ DeOptStr(o.remote).ok
  THEN DOk([NoMsg EXCEPT !.variant = "Version",
                         !.release = DeString(o.release).v,
                         !.rev = DeString(o.rev).v,
                         !.proto_major = o.proto_major.n,
                         !.proto_minor = DeU8(o.proto_minor).v,
                         !.remote = DeOptStr(o.remote).v])
  ELSE DErr

\* DeviceInfo: path (Option<String>, taken as valid), activated
DeviceInfo(item) == DeActivated(item)

Devices(o) ==
  IF /\ o.devices.t = "arr"
     /\ \A i \in 1..Len(o.devices.items) : DeviceInfo(o.devices.items[i]).ok
  THEN DOk([NoMsg EXCEPT !.variant = "Devices",
              !.activated = [i \in 1..Len(o.devices.items) |->
                               DeviceInfo(o.devices.items[i]).v]])
  ELSE DErr

Watch(o) ==
  IF /\ DeOptBool(o.enable).ok
     /\ DeOptBool(o.json).ok
     /\ DeOptBool(o.nmea).ok
     /\ DeOptStr(o.device).ok
  THEN DOk([NoMsg EXCEPT !.variant = "Watch",
                         !.enable = DeOptBool(o.enable).v,
                         !.json = DeOptBool(o.json).v,
                         !.nmea = DeOptBool(o.nmea).v,
                         !.device = DeOptStr(o.device).v])
  ELSE DErr

Device(o) ==
  IF DeOptStr(o.path).ok /\ DeActivated(o.activated).ok
  THEN DOk([NoMsg EXCEPT !.variant = "Device",
                         !.path = DeOptStr(o.path).v,
                         !.activated = << DeActivated(o.activated).v >>])
  ELSE DErr

\* mutant: the struct is marked serde(deny_unknown_fields)
Tpv_DenyUnknown(o) ==
  IF /\ o.extra.t = "absent"
     /\ DeOptStr(o.device).ok
     /\ mode_from_str(o.mode).ok
     /\ DeOptF64(o.lat).ok
  THEN DOk([NoMsg EXCEPT !.variant = "Tpv",
                         !.device = DeOptStr(o.device).v,
                         !.mode = mode_from_str(o.mode).v.s,
                         !.lat = DeOptF64(o.lat).v])
  ELSE DErr

\* mutant: `mode` is marked serde(default) with NoFix as the default
Tpv_ModeDefault(o) ==
  LET mode == IF o.mode.t = "absent" THEN FOk(SomeStr("NoFix"))
              ELSE mode_from_str(o.mode)
  IN IF /\ DeOptStr(o.device).ok
        /\ mode.ok
        /\ DeOptF64(o.lat).ok
     THEN DOk([NoMsg EXCEPT !.variant = "Tpv",
                            !.device = DeOptStr(o.device).v,
                            !.mode = mode.v.s,
                            !.lat = DeOptF64(o.lat).v])
     ELSE DErr

Tpv(o) ==
  IF /\ DeOptStr(o.device).ok
     /\ mode_from_str(o.mode).ok
     /\ DeOptF64(o.lat).ok
  THEN DOk([NoMsg EXCEPT !.variant = "Tpv",
                         !.device = DeOptStr(o.device).v,
                         !.mode = mode_from_str(o.mode).v.s,
                         !.lat = DeOptF64(o.lat).v])
  ELSE DErr

\* mutant: `used` is marked serde(default), so a row without it is taken
Satellite_UsedDefault(item) ==
  IF /\ DeI16(item.PRN).ok
     /\ item.used.t \in {"absent", "bool"}
     /\ DeOptF32(item.el).ok
  THEN [ok |-> TRUE,
        v |-> [prn |-> item.PRN.n, used |-> item.used = JBool(TRUE),
               el |-> DeOptF32(item.el).v]]
  ELSE FErr

\* Satellite: PRN and `used` are required, `el` stands for the optional fields
Satellite(item) ==
  IF DeI16(item.PRN).ok /\ DeBool(item.used).ok /\ DeOptF32(item.el).ok
  THEN [ok |-> TRUE,
        v |-> [prn |-> item.PRN.n, used |-> item.used.n = 1,
               el |-> DeOptF32(item.el).v]]
  ELSE FErr

Sky(o) ==
  IF /\ DeOptStr(o.device).ok
     /\ \/ o.satellites.t \in {"absent", "null"}
        \/ /\ o.satellites.t = "arr"
           /\ \A i \in 1..Len(o.satellites.items) :
                Satellite(o.satellites.items[i]).ok
  THEN DOk([NoMsg EXCEPT !.variant = "Sky",
              !.device = DeOptStr(o.device).v,
              !.satellites =
                 IF o.satellites.t = "arr"
                 THEN SomeSats([i \in 1..Len(o.satellites.items) |->
                                  Satellite(o.satellites.items[i]).v])
                 ELSE NoSats])
  ELSE DErr

Pps(o) ==
  IF /\ DeString(o.device).ok
     /\ DeF32(o.real_sec).ok
     /\ DeF32(o.real_nsec).ok
     /\ DeF32(o.clock_sec).ok
     /\ DeF32(o.clock_nsec).ok
  THEN DOk([NoMsg EXCEPT !.variant = "Pps",
              !.device = DeString(o.device).v,
              !.nums = << DeF32(o.real_sec).v, DeF32(o.real_nsec).v,
                          DeF32(o.clock_sec).v, DeF32(o.clock_nsec).v >>])
  ELSE DErr

Gst(o) ==
  IF DeOptStr(o.device).ok /\ DeOptF32(o.lat).ok
  THEN DOk([NoMsg EXCEPT !.variant = "Gst",
                         !.device = DeOptStr(o.device).v,
                         !.lat = DeOptF32(o.lat).v])
  ELSE DErr

Att(o) ==
  IF DeOptStr(o.device).ok
  THEN DOk([NoMsg EXCEPT !.variant = "Att", !.device = DeOptStr(o.device).v])
  ELSE DErr

Osc(o) ==
  IF /\ DeOptStr(o.device).ok
     /\ DeBool(o.running).ok
     /\ DeBool(o.reference).ok
     /\ DeBool(o.disciplined).ok
     /\ DeU32(o.delta).ok
  THEN DOk([NoMsg EXCEPT !.variant = "Osc",
              !.device = DeOptStr(o.device).v,
              !.nums = << DeBool(o.running).v, DeBool(o.reference).v,
                          DeBool(o.disciplined).v, DeU32(o.delta).v >>])
  ELSE DErr

\* an element of Poll's tpv is a Tpv, given by the wire value of its mode;
\* an element of Poll's sky is a Sky, which requires no field
PollSky(item) == FOk(None)

Poll(o) ==
  IF /\ DeU32(o.active).ok
     /\ o.tpv.t = "arr"
     /\ \A i \in 1..Len(o.tpv.items) : mode_from_str(o.tpv.items[i]).ok
     /\ o.sky.t = "arr"
     /\ \A i \in 1..Len(o.sky.items) : PollSky(o.sky.items[i]).ok
  THEN DOk([NoMsg EXCEPT !.variant = "Poll",
              !.nums = << DeU32(o.active).v >>,
              !.tpv = [i \in 1..Len(o.tpv.items) |->
                         mode_from_str(o.tpv.items[i]).v],
              !.sky = [i \in 1..Len(o.sky.items) |->
                         PollSky(o.sky.items[i]).v]])
  ELSE DErr

\* a variant whose payload is another variant's struct (Imu(Att), Toff(Pps))
As(variant, d) ==
  IF d.ok THEN DOk([d.msg EXCEPT !.variant = variant]) ELSE DErr

(***************************************************************************)
(* One line as read_until(b'\n') returns it.                               *)
(*   kind  "object": the text before the terminator is one well-formed     *)
(*         JSON object; "scalar": one well-formed JSON value that is not   *)
(*         an object or array; "malformed": not well-formed JSON (broken,  *)
(*         truncated, arbitrary bytes); "empty": no text at all            *)
(*   term  "LF", "CRLF", or "EOF" when the stream ended before any LF      *)
(*         (kind "empty" with term "EOF" is a read of zero bytes)          *)
(*   utf8  whether the bytes are valid UTF-8                               *)
(*   o     the object's fields (NoFields unless kind = "object")           *)
(***************************************************************************)
Line(kind, term, utf8, o) == [kind |-> kind, term |-> term, utf8 |-> utf8, o |-> o]

ZeroBytes == Line("empty", "EOF", TRUE, NoFields)

(***************************************************************************)
(* serde_json::from_slice into an internally tagged enum                   *)
(* (serde(tag = "class"), rename_all = "UPPERCASE"): the text must be one  *)
(* JSON value followed by white space only (CR and LF are white space),    *)
(* the value an object with a string under "class" that names a variant of *)
(* the enum, and the rest of the object must decode as that variant.       *)
(***************************************************************************)
\* mutant: the handshake decodes against one union that also has the payload
\* variants
ResponseHandshake_OneUnion(line) ==
  IF line.kind # "object" \/ line.o.class.t # "str" THEN DErr
  ELSE CASE line.o.class.s = "VERSION" -> Version(line.o)
         [] line.o.class.s = "DEVICES" -> Devices(line.o)
         [] line.o.class.s = "WATCH" -> Watch(line.o)
         [] line.o.class.s = "DEVICE" -> Device(line.o)
         [] line.o.class.s = "TPV" -> Tpv(line.o)
         [] line.o.class.s = "SKY" -> Sky(line.o)
         [] OTHER -> DErr

ResponseHandshake(line) ==
  IF line.kind # "object" \/ line.o.class.t # "str" THEN DErr
  ELSE CASE line.o.class.s = "VERSION" -> Version(line.o)
         [] line.o.class.s = "DEVICES" -> Devices(line.o)
         [] line.o.class.s = "WATCH" -> Watch(line.o)
         [] OTHER -> DErr

\* mutant: the variant names are not upper-cased one by one, so IMU and TOFF
\* come out as the variants whose struct they share
ResponseData_SharedStruct(line) ==
  IF line.kind # "object" \/ line.o.class.t # "str" THEN DErr
  ELSE CASE line.o.class.s = "DEVICE" -> Device(line.o)
         [] line.o.class.s = "TPV" -> Tpv(line.o)
         [] line.o.class.s = "SKY" -> Sky(line.o)
         [] line.o.class.s \in {"PPS", "TOFF"} -> Pps(line.o)
         [] line.o.class.s = "GST" -> Gst(line.o)
         [] line.o.class.s \in {"ATT", "IMU"} -> Att(line.o)
         [] line.o.class.s = "OSC" -> Osc(line.o)
         [] line.o.class.s = "POLL" -> Poll(line.o)
         [] OTHER -> DErr

ResponseData(line) ==
  IF line.kind # "object" \/ line.o.class.t # "str" THEN DErr
  ELSE CASE line.o.class.s = "DEVICE" -> Device(line.o)
         [] line.o.class.s = "TPV" -> Tpv(line.o)
         [] line.o.class.s = "SKY" -> Sky(line.o)
         [] line.o.class.s = "PPS" -> Pps(line.o)
         [] line.o.class.s = "GST" -> Gst(line.o)
         [] line.o.class.s = "ATT" -> Att(line.o)
         [] line.o.class.s = "IMU" -> As("Imu", Att(line.o))
         [] line.o.class.s = "TOFF" -> As("Toff", Pps(line.o))
         [] line.o.class.s = "OSC" -> Osc(line.o)
         [] line.o.class.s = "POLL" -> Poll(line.o)
         [] OTHER -> DErr

\* Subframe(serde_json::Value): the newtype variant of an internally tagged
\* enum is given the object without its tag, and a Value takes any object
Subframe(o) ==
  DOk([NoMsg EXCEPT !.variant = "Subframe", !.raw = [o EXCEPT !.class = Absent]])

\* mutant: Subframe is a catch-all for every token no other variant has
UnifiedResponse_CatchAll(line) ==
  IF line.kind # "object" \/ line.o.class.t # "str" THEN DErr
  ELSE IF line.o.class.s \in {"VERSION", "DEVICES", "WATCH"}
       THEN ResponseHandshake(line)
  ELSE IF line.o.class.s \in {"DEVICE", "TPV", "SKY", "PPS", "GST", "ATT", "IMU",
                              "TOFF", "OSC", "POLL"}
       THEN ResponseData(line)
  ELSE Subframe(line.o)

UnifiedResponse(line) ==
  IF line.kind # "object" \/ line.o.class.t # "str" THEN DErr
  ELSE CASE line.o.class.s = "VERSION" -> Version(line.o)
         [] line.o.class.s = "DEVICES" -> Devices(line.o)
         [] line.o.class.s = "WATCH" -> Watch(line.o)
         [] line.o.class.s = "DEVICE" -> Device(line.o)
         [] line.o.class.s = "TPV" -> Tpv(line.o)
         [] line.o.class.s = "SKY" -> Sky(line.o)
         [] line.o.class.s = "PPS" -> Pps(line.o)
         [] line.o.class.s = "GST" -> Gst(line.o)
         [] line.o.class.s = "ATT" -> Att(line.o)
         [] line.o.class.s = "IMU" -> As("Imu", Att(line.o))
         [] line.o.class.s = "TOFF" -> As("Toff", Pps(line.o))
         [] line.o.class.s = "OSC" -> Osc(line.o)
         [] line.o.class.s = "POLL" -> Poll(line.o)
         [] line.o.class.s = "SUBFRAME" -> Subframe(line.o)
         [] OTHER -> DErr

\* serde_json::from_slice::<T>(line) for each of the three unions
Unions == {"ResponseHandshake", "ResponseData", "UnifiedResponse"}

DecodeAs(union, line) ==
  CASE union = "ResponseHandshake" -> ResponseHandshake(line)
    [] union = "ResponseData" -> ResponseData(line)
    [] union = "UnifiedResponse" -> UnifiedResponse(line)

(***************************************************************************)
(* Serialization (feature "serialize"): the derived Serialize of a struct  *)
(* writes every field under its wire name, None as null; Mode has its own  *)
(* Serialize; the derived Serialize of an internally tagged enum writes    *)
(* "class" with the upper-cased variant name and then the payload's        *)
(* fields.  serde_json::to_vec writes no line terminator.                  *)
(***************************************************************************)
EnOptStr(v) == IF v.some THEN JStr(v.s) ELSE JNull

EnOptBool(v) == IF v.some THEN JBool(v.n = 1) ELSE JNull

\* a number is written as the shortest text that reads back as the same
\* number: it is kept as the text or the integer it was decoded from
EnNum(v) == IF v.s # "" THEN JFloat(v.s) ELSE JInt(v.n)

EnOptNum(v) == IF v.some THEN EnNum(v) ELSE JNull

\* impl Serialize for Mode
EnMode(mode) ==
  CASE mode = "NoFix" -> JInt(1)
    [] mode = "Fix2d" -> JInt(2)
    [] mode = "Fix3d" -> JInt(3)

EnSatellite(row) == SatRow(JInt(row.prn), JBool(row.used), EnOptNum(row.el))

\* the upper-cased variant name
Token(variant) ==
  CASE variant = "Version" -> "VERSION"
    [] variant = "Devices" -> "DEVICES"
    [] variant = "Watch" -> "WATCH"
    [] variant = "Device" -> "DEVICE"
    [] variant = "Tpv" -> "TPV"
    [] variant = "Sky" -> "SKY"
    [] variant = "Pps" -> "PPS"
    [] variant = "Gst" -> "GST"
    [] variant = "Att" -> "ATT"
    [] variant = "Imu" -> "IMU"
    [] variant = "Toff" -> "TOFF"
    [] variant = "Osc" -> "OSC"
    [] variant = "Poll" -> "POLL"
    [] variant = "Subframe" -> "SUBFRAME"

\* the fields of the payload
SerFields(m) ==
  CASE m.variant = "Version" ->
         [NoFields EXCEPT !.release = EnOptStr(m.release), !.rev = EnOptStr(m.rev),
                          !.proto_major = JInt(m.proto_major),
                          !.proto_minor = EnNum(m.proto_minor),
                          !.remote = EnOptStr(m.remote)]
    [] m.variant = "Devices" ->
         [NoFields EXCEPT !.devices =
            JArr([i \in 1..Len(m.activated) |-> LeafOf(EnOptStr(m.activated[i]))])]
    [] m.variant = "Watch" ->
         [NoFields EXCEPT !.enable = EnOptBool(m.enable), !.json = EnOptBool(m.json),
                          !.nmea = EnOptBool(m.nmea), !.device = EnOptStr(m.device)]
    [] m.variant = "Device" ->
         [NoFields EXCEPT !.path = EnOptStr(m.path),
                          !.activated = EnOptStr(m.activated[1])]
    [] m.variant = "Tpv" ->
         [NoFields EXCEPT !.device = EnOptStr(m.device), !.mode = EnMode(m.mode),
                          !.lat = EnOptNum(m.lat)]
    [] m.variant = "Sky" ->
         [NoFields EXCEPT !.device = EnOptStr(m.device),
            !.satellites =
               IF m.satellites.some
               THEN JArr([i \in 1..Len(m.satellites.rows) |->
                            EnSatellite(m.satellites.rows[i])])
               ELSE JNull]
    [] m.variant \in {"Pps", "Toff"} ->
         [NoFields EXCEPT !.device = EnOptStr(m.device),
                          !.real_sec = EnNum(m.nums[1]), !.real_nsec = EnNum(m.nums[2]),
                          !.clock_sec = EnNum(m.nums[3]), !.clock_nsec = EnNum(m.nums[4])]
    [] m.variant = "Gst" ->
         [NoFields EXCEPT !.device = EnOptStr(m.device), !.lat = EnOptNum(m.lat)]
    [] m.variant \in {"Att", "Imu"} ->
         [NoFields EXCEPT !.device = EnOptStr(m.device)]
    [] m.variant = "Osc" ->
         [NoFields EXCEPT !.device = EnOptStr(m.device),
                          !.running = EnOptBool(m.nums[1]),
                          !.reference = EnOptBool(m.nums[2]),
                          !.disciplined = EnOptBool(m.nums[3]),
                          !.delta = EnNum(m.nums[4])]
    [] m.variant = "Poll" ->
         [NoFields EXCEPT !.active = EnNum(m.nums[1]),
            !.tpv = JArr([i \in 1..Len(m.tpv) |-> LeafOf(EnMode(m.tpv[i].s))]),
            !.sky = JArr([i \in 1..Len(m.sky) |-> LeafOf(JNull)])]
    [] m.variant = "Subframe" -> m.raw

\* serde_json::to_vec(&value)
Serialize(m) ==
  Line("object", "EOF", TRUE, [SerFields(m) EXCEPT !.class = JStr(Token(m.variant))])

(***************************************************************************)
(* The lines the daemon side may send: for every message class lines that  *)
(* decode and lines that do not, and text that is no JSON object.          *)
(***************************************************************************)
Timestamp == "2024-01-10T11:36:48.480Z"

\* wire values offered for `activated`
ActivatedWire ==
  {Absent, JNull, JStr(Timestamp), JBool(FALSE), JInt(0), JInt(1),
   JInt(MaxWireInt)}

\* wire values offered for `mode`
ModeWire ==
  {Absent, JNull, JStr("3"), JBool(TRUE), JInt(99), JInt(U8_MAX),
   JInt(U8_MAX + 1)}
  \cup {JInt(n) : n \in 0..MaxWireInt}

\* wire values offered for proto_major
MajorWire ==
  {Absent, JInt(U8_MAX), JInt(U8_MAX + 1)} \cup {JInt(n) : n \in 0..MaxMajor}

\* wire values offered for each of enable, json, nmea
FlagWire == {Absent, JBool(TRUE), JBool(FALSE)}

Obj(o) == Line("object", "LF", TRUE, o)

Sat123 == SatRow(JInt(123), JBool(TRUE), JFloat("1.0"))

\* wire values offered for `satellites`
SatellitesWire ==
  {Absent, JArr(<< >>), JArr(<< Sat123 >>),
   JArr(<< Sat123, SatRow(JInt(7), JBool(FALSE), Absent) >>),
   JArr(<< SatRow(JInt(7), JBool(FALSE), Absent), Sat123 >>),
   JArr(<< Sat123, SatRow(JInt(7), Absent, Absent) >>),
   JArr(<< SatRow(JInt(I16_MAX + 1), JBool(TRUE), Absent) >>)}

TpvObj(mode, device, lat) ==
  [NoFields EXCEPT !.class = JStr("TPV"), !.mode = mode, !.device = device,
                   !.lat = lat]

VersionObj(major) ==
  [NoFields EXCEPT !.class = JStr("VERSION"), !.release = JStr("3.17"),
                   !.rev = JStr("blurp"), !.proto_major = major,
                   !.proto_minor = JInt(12)]

DevicesObj(devices) ==
  [NoFields EXCEPT !.class = JStr("DEVICES"), !.devices = devices]

WatchObj(en, js, nm) ==
  [NoFields EXCEPT !.class = JStr("WATCH"), !.enable = en, !.json = js,
                   !.nmea = nm]

PpsObj(class) ==
  [NoFields EXCEPT !.class = JStr(class), !.device = JStr("/dev/pps0"),
                   !.real_sec = JInt(1), !.real_nsec = JInt(0),
                   !.clock_sec = JInt(1), !.clock_nsec = JFloat("0.5")]

OscObj ==
  [NoFields EXCEPT !.class = JStr("OSC"), !.running = JBool(TRUE),
                   !.reference = JBool(TRUE), !.disciplined = JBool(FALSE),
                   !.delta = JInt(0)]

PollObj(tpv) ==
  [NoFields EXCEPT !.class = JStr("POLL"), !.active = JInt(1),
                   !.tpv = tpv, !.sky = JArr(<< LeafOf(Absent) >>)]

VersionLines ==
  {Obj(VersionObj(m)) : m \in MajorWire}
  \cup {Line("object", t, TRUE, VersionObj(JInt(PROTO_MAJOR_MIN))) : t \in {"CRLF", "EOF"}}
  \cup {Line("object", "CRLF", TRUE, VersionObj(JInt(PROTO_MAJOR_MIN - 1)))}

DevicesLines ==
  {Obj(DevicesObj(JArr(<< LeafOf(a) >>))) : a \in ActivatedWire}
  \cup {Obj(DevicesObj(d)) :
          d \in {Absent, JArr(<< >>),
                 JArr(<< LeafOf(JStr(Timestamp)), LeafOf(JInt(0)) >>),
                 JArr(<< LeafOf(JStr(Timestamp)), LeafOf(JInt(1)) >>)}}
  \cup {Line("object", "CRLF", TRUE, DevicesObj(JArr(<< LeafOf(JStr(Timestamp)) >>)))}

WatchLines ==
  {Obj(WatchObj(en, js, nm)) : en \in FlagWire, js \in FlagWire, nm \in FlagWire}
  \cup {Obj(WatchObj(JNull, JNull, nm)) : nm \in {JNull, JBool(TRUE)}}
  \cup {Obj(WatchObj(JStr("true"), JBool(TRUE), JBool(FALSE))),
        Line("object", "CRLF", TRUE, WatchObj(JBool(TRUE), JBool(TRUE), JBool(FALSE)))}

DataLines ==
  {Obj([NoFields EXCEPT !.class = JStr("DEVICE"), !.path = JStr("/dev/gps"),
                        !.activated = a]) : a \in ActivatedWire}
  \cup {Obj(TpvObj(m, Absent, Absent)) : m \in ModeWire}
  \cup {Line("object", "CRLF", TRUE, TpvObj(JInt(3), Absent, JFloat("66.123")))}
  \cup {Obj(TpvObj(JInt(2), JStr("/dev/ttyUSB0"), l)) : l \in {JNull, JInt(66)}}
  \cup {Obj([NoFields EXCEPT !.class = JStr("SKY"), !.device = JStr("aDevice"),
                             !.satellites = sats]) : sats \in SatellitesWire}
  \cup {Obj(PpsObj(c)) : c \in {"PPS", "TOFF"}}
  \cup {Obj([PpsObj("PPS") EXCEPT !.device = Absent])}
  \cup {Obj([NoFields EXCEPT !.class = JStr(c)]) : c \in {"GST", "ATT", "IMU", "OSC", "POLL"}}
  \cup {Obj(OscObj)}
  \cup {Obj(PollObj(t)) : t \in {JArr(<< >>), JArr(<< LeafOf(Absent) >>)}}

\* objects whose discriminator names no variant of either union, or is no
\* string, or is missing
OtherClassLines ==
  {Obj([VersionObj(JInt(PROTO_MAJOR_MIN)) EXCEPT !.class = c]) :
     c \in {Absent, JInt(1), JStr("version")}}
  \cup {Obj([NoFields EXCEPT !.class = c, !.mode = JInt(3)]) :
          c \in {JStr("tpv"), JStr("SUBFRAME")}}

\* text that is not one JSON object
NonObjectLines ==
  {Line("malformed", "LF", u, NoFields) : u \in BOOLEAN}
  \cup {Line("malformed", "EOF", TRUE, NoFields),
        Line("scalar", "LF", TRUE, NoFields),
        Line("empty", "LF", TRUE, NoFields), ZeroBytes}

\* a short catalogue: the three lines of a handshake that succeeds (and, in
\* another order, of one that is refused) and a line of the stream
ShortLines ==
  {Obj(VersionObj(JInt(PROTO_MAJOR_MIN))),
   Obj(DevicesObj(JArr(<< LeafOf(JStr(Timestamp)) >>))),
   Obj(WatchObj(JBool(TRUE), JBool(TRUE), JBool(FALSE))),
   Obj(TpvObj(JInt(3), Absent, Absent))}

Lines ==
  VersionLines \cup DevicesLines \cup WatchLines \cup DataLines
  \cup OtherClassLines \cup NonObjectLines

(***************************************************************************)
(* State.                                                                  *)
(*   pc       where the caller is: "Start" (nothing called yet), the next  *)
(*            I/O operation of a running handshake ("SendWatch", "Flush",  *)
(*            "AwaitDevices", "AwaitWatchAck"), "Returned" (handshake has  *)
(*            returned `result`), "Streaming" (get_data has been called),  *)
(*            "Panicked" (the thread unwound)                              *)
(*   reader   the input side: lines consumed so far, whether the stream    *)
(*            has ended, and which lines its daemon may send ("all": the   *)
(*            whole catalogue, "short": ShortLines)                        *)
(*   out      the bytes the output side has accepted                       *)
(*   flushed  how many of them were flushed                                *)
(*   data     the lines the running handshake has read, in order           *)
(*   events   the I/O operations of the running handshake, in order, each  *)
(*            with its outcome                                             *)
(*   result   what handshake returned                                      *)
(*   gd       one entry per get_data call: the line read and the result    *)
(* The variables above are those of the connection whose thread is         *)
(* running; a second connection, with a reader and a writer of its own,    *)
(* is kept in                                                              *)
(*   cur      which connection (1 or 2) is the running one                 *)
(*   peer     the state of the other connection                            *)
(* and the codec applied to one line on its own in                         *)
(*   codec    the line, the union it is decoded against, the decoded       *)
(*            value, its serialization, and the value decoded from that    *)
(***************************************************************************)
VARIABLES pc, reader, out, flushed, data, events, result, gd, cur, peer, codec

vars == << pc, reader, out, flushed, data, events, result, gd, cur, peer, codec >>

\* one I/O operation ("read", "write", "flush") and whether it succeeded
Ev(op, ok) == [op |-> op, ok |-> ok]

\* Result<(), GpsdError>, and the String an error carries
Res(kind, text) == [kind |-> kind, text |-> text]
NoResult == Res("none", << >>)

\* a reader nothing was read from; feed names the lines its daemon sends
FreshReader(feed) == [pos |-> 0, eof |-> FALSE, feed |-> feed]

\* a connection on which nothing has been called yet
FreshConn ==
  [pc |-> "Start", reader |-> FreshReader("all"), out |-> << >>,
   flushed |-> 0, data |-> << >>, events |-> << >>, result |-> NoResult,
   gd |-> << >>]

\* the codec has been given nothing
NoCodec ==
  [stage |-> "idle", line |-> << >>, union |-> "", dec |-> << >>,
   enc |-> << >>, back |-> << >>]

Init ==
  /\ pc = "Start"
  /\ reader = FreshReader("all")
  /\ out = << >>
  /\ flushed = 0
  /\ data = << >>
  /\ events = << >>
  /\ result = NoResult
  /\ gd = << >>
  /\ cur = 1
  /\ peer = FreshConn
  /\ codec = NoCodec

(***************************************************************************)
(* reader.read_until(b'\n', &mut data): the bytes up to and including the  *)
(* next LF; at the end of the stream what is left, which is nothing once   *)
(* the end has been reached.                                               *)
(***************************************************************************)
Available(rd) ==
  IF rd.eof THEN {ZeroBytes}
  ELSE IF rd.feed = "short" THEN ShortLines
  ELSE Lines

AfterRead(rd, line) ==
  [pos |-> rd.pos + (IF line = ZeroBytes THEN 0 ELSE 1),
   eof |-> line.term = "EOF",
   feed |-> rd.feed]

\* trace!("{}", String::from_utf8(data.clone()).unwrap()): the argument is
\* evaluated only when the trace level is enabled, and unwrap panics on
\* bytes that are not UTF-8
TracePanics(trace, line) == trace /\ ~line.utf8

\* whether the trace level is enabled; it changes nothing for a line that is
\* UTF-8, for which one of the two is enough
TraceLevels(line) == IF line.utf8 THEN {FALSE} ELSE BOOLEAN

(***************************************************************************)
(* The match of each handshake step on the decoded message: the result to  *)
(* return, or NoResult to go on.                                           *)
(***************************************************************************)
\* mutant: the minimum is compared off by one
MatchVersion_OffByOne(msg, line) ==
  IF msg.variant = "Version"
  THEN (IF msg.proto_major < PROTO_MAJOR_MIN - 1
        THEN Res("UnsupportedGpsdProtocolVersion", << >>)
        ELSE NoResult)
  ELSE Res("UnexpectedGpsdReply", << line >>)

\* mutant: the variant is not checked, only a Version's major is
MatchVersion_AnyVariant(msg, line) ==
  IF msg.variant = "Version" /\ msg.proto_major < PROTO_MAJOR_MIN
  THEN Res("UnsupportedGpsdProtocolVersion", << >>)
  ELSE NoResult

MatchVersion(msg, line) ==
  IF msg.variant = "Version"
  THEN (IF msg.proto_major < PROTO_MAJOR_MIN
        THEN Res("UnsupportedGpsdProtocolVersion", << >>)
        ELSE NoResult)
  ELSE Res("UnexpectedGpsdReply", << line >>)

\* mutant: whatever the second line decodes to is taken
MatchDevices_AnyVariant(msg, line) == NoResult

MatchDevices(msg, line) ==
  IF msg.variant = "Devices" THEN NoResult
  ELSE Res("UnexpectedGpsdReply", << line >>)

\* mutant: the watch fails whenever nmea is on
MatchWatch_AnyNmea(msg, line) ==
  IF msg.variant = "Watch"
  THEN (IF UnwrapOrFalse(msg.nmea) THEN Res("WatchFail", << line >>) ELSE NoResult)
  ELSE Res("UnexpectedGpsdReply", << line >>)

\* mutant: the pattern is inverted to (true, true, false)
MatchWatch_Inverted(msg, line) ==
  IF msg.variant = "Watch"
  THEN (IF /\ UnwrapOrFalse(msg.enable)
           /\ UnwrapOrFalse(msg.json)
           /\ ~UnwrapOrFalse(msg.nmea)
        THEN Res("WatchFail", << line >>)
        ELSE NoResult)
  ELSE Res("UnexpectedGpsdReply", << line >>)

MatchWatch(msg, line) ==
  IF msg.variant = "Watch"
  THEN (IF /\ ~UnwrapOrFalse(msg.enable)
           /\ ~UnwrapOrFalse(msg.json)
           /\ UnwrapOrFalse(msg.nmea)
        THEN Res("WatchFail", << line >>)
        ELSE NoResult)
  ELSE Res("UnexpectedGpsdReply", << line >>)

\* mutant: the buffer is not renewed before each read, so that the text of
\* an error starts with the first line read
StepResult_FirstLine(here, line) ==
  LET msg == ResponseHandshake(line)
      text == IF data = << >> THEN line ELSE data[1]
  IN IF ~msg.ok THEN Res("JsonError", << >>)
     ELSE CASE here = "Start" -> MatchVersion(msg.msg, text)
            [] here = "AwaitDevices" -> MatchDevices(msg.msg, text)
            [] here = "AwaitWatchAck" -> MatchWatch(msg.msg, text)

\* one read step of handshake: read a line, trace it, decode it against the
\* handshake union (`?` returns the error), match it
StepResult(here, line) ==
  LET msg == ResponseHandshake(line)
  IN IF ~msg.ok THEN Res("JsonError", << >>)
     ELSE CASE here = "Start" -> MatchVersion(msg.msg, line)
            [] here = "AwaitDevices" -> MatchDevices(msg.msg, line)
            [] here = "AwaitWatchAck" -> MatchWatch(msg.msg, line)

\* mutant: the failed read is not returned; the empty buffer is decoded
ReadStep_DecodeAfterError(here, next, pass) ==
  /\ pc = here
  /\ \/ /\ events' = Append(events, Ev("read", FALSE))
        /\ result' = Res("JsonError", << >>)
        /\ pc' = "Returned"
        /\ UNCHANGED << reader, data >>
     \/ \E line \in Available(reader) : \E trace \in TraceLevels(line) :
          /\ events' = Append(events, Ev("read", TRUE))
          /\ reader' = AfterRead(reader, line)
          /\ data' = Append(data, line)
          /\ IF TracePanics(trace, line)
             THEN pc' = "Panicked" /\ result' = result
             ELSE LET r == StepResult(here, line)
                  IN IF r = NoResult
                     THEN pc' = next /\ result' = pass
                     ELSE pc' = "Returned" /\ result' = r
  /\ UNCHANGED << out, flushed, gd, cur, peer, codec >>

\* mutant: handshake reads through a buffer of its own, which has taken one
\* more line from the reader when it is dropped
ReadStep_ReadAhead(here, next, pass) ==
  /\ pc = here
  /\ \/ /\ events' = Append(events, Ev("read", FALSE))
        /\ result' = Res("IoError", << >>)
        /\ pc' = "Returned"
        /\ UNCHANGED << reader, data >>
     \/ \E line \in Available(reader) : \E trace \in TraceLevels(line) :
          /\ events' = Append(events, Ev("read", TRUE))
          /\ reader' = [AfterRead(reader, line) EXCEPT
                          !.pos = @ + (IF next = "Returned" THEN 1 ELSE 0)]
          /\ data' = Append(data, line)
          /\ IF TracePanics(trace, line)
             THEN pc' = "Panicked" /\ result' = result
             ELSE LET r == StepResult(here, line)
                  IN IF r = NoResult
                     THEN pc' = next /\ result' = pass
                     ELSE pc' = "Returned" /\ result' = r
  /\ UNCHANGED << out, flushed, gd, cur, peer, codec >>

ReadStep(here, next, pass) ==
  /\ pc = here
  /\ \/ \* read_until returns an I/O error
        /\ events' = Append(events, Ev("read", FALSE))
        /\ result' = Res("IoError", << >>)
        /\ pc' = "Returned"
        /\ UNCHANGED << reader, data >>
     \/ \E line \in Available(reader) : \E trace \in TraceLevels(line) :
          /\ events' = Append(events, Ev("read", TRUE))
          /\ reader' = AfterRead(reader, line)
          /\ data' = Append(data, line)
          /\ IF TracePanics(trace, line)
             THEN pc' = "Panicked" /\ result' = result
             ELSE LET r == StepResult(here, line)
                  IN IF r = NoResult
                     THEN pc' = next /\ result' = pass
                     ELSE pc' = "Returned" /\ result' = r
  /\ UNCHANGED << out, flushed, gd, cur, peer, codec >>

\* Get VERSION
AwaitVersion == ReadStep("Start", "SendWatch", NoResult)

\* mutant: the command is written but not flushed before the next read
SendWatch_NoFlush ==
  /\ pc = "SendWatch"
  /\ \/ /\ events' = Append(events, Ev("write", TRUE))
        /\ out' = out \o ENABLE_WATCH_CMD
        /\ pc' = "AwaitDevices"
        /\ result' = result
     \/ \E k \in 0..(Len(ENABLE_WATCH_CMD) - 1) :
          /\ events' = Append(events, Ev("write", FALSE))
          /\ out' = out \o SubSeq(ENABLE_WATCH_CMD, 1, k)
          /\ pc' = "Returned"
          /\ result' = Res("IoError", << >>)
  /\ UNCHANGED << reader, flushed, data, gd, cur, peer, codec >>

\* mutant: the result of write_all is dropped instead of returned with `?`
SendWatch_IgnoreError ==
  /\ pc = "SendWatch"
  /\ \/ /\ events' = Append(events, Ev("write", TRUE))
        /\ out' = out \o ENABLE_WATCH_CMD
     \/ \E k \in 0..(Len(ENABLE_WATCH_CMD) - 1) :
          /\ events' = Append(events, Ev("write", FALSE))
          /\ out' = out \o SubSeq(ENABLE_WATCH_CMD, 1, k)
  /\ pc' = "Flush"
  /\ result' = result
  /\ UNCHANGED << reader, flushed, data, gd, cur, peer, codec >>

\* writer.write_all(ENABLE_WATCH_CMD.as_bytes())?
SendWatch ==
  /\ pc = "SendWatch"
  /\ \/ /\ events' = Append(events, Ev("write", TRUE))
        /\ out' = out \o ENABLE_WATCH_CMD
        /\ pc' = "Flush"
        /\ result' = result
     \/ \* the write fails after the writer accepted k bytes
        \E k \in 0..(Len(ENABLE_WATCH_CMD) - 1) :
          /\ events' = Append(events, Ev("write", FALSE))
          /\ out' = out \o SubSeq(ENABLE_WATCH_CMD, 1, k)
          /\ pc' = "Returned"
          /\ result' = Res("IoError", << >>)
  /\ UNCHANGED << reader, flushed, data, gd, cur, peer, codec >>

\* mutant: the result of flush is dropped instead of returned with `?`
Flush_IgnoreError ==
  /\ pc = "Flush"
  /\ \/ /\ events' = Append(events, Ev("flush", TRUE))
        /\ flushed' = Len(out)
     \/ /\ events' = Append(events, Ev("flush", FALSE))
        /\ flushed' = flushed
  /\ pc' = "AwaitDevices"
  /\ result' = result
  /\ UNCHANGED << reader, out, data, gd, cur, peer, codec >>

\* writer.flush()?
Flush ==
  /\ pc = "Flush"
  /\ \/ /\ events' = Append(events, Ev("flush", TRUE))
        /\ flushed' = Len(out)
        /\ pc' = "AwaitDevices"
        /\ result' = result
     \/ /\ events' = Append(events, Ev("flush", FALSE))
        /\ flushed' = flushed
        /\ pc' = "Returned"
        /\ result' = Res("IoError", << >>)
  /\ UNCHANGED << reader, out, data, gd, cur, peer, codec >>

\* Get DEVICES
AwaitDevices == ReadStep("AwaitDevices", "AwaitWatchAck", NoResult)

\* Get WATCH, then Ok(())
AwaitWatchAck ==
  ReadStep("AwaitWatchAck", "Returned", Res("Ok", << >>))

(***************************************************************************)
(* get_data: read a line, trace it, decode it against the payload union.   *)
(* It is called on a fresh reader, after a handshake that returned Ok (as  *)
(* demo_forever does), or after an earlier get_data whatever that          *)
(* returned; by then the handshake call is over and its frame is gone.     *)
(***************************************************************************)
\* mutant: a read of zero bytes is reported as an I/O error (unexpected end
\* of file) instead of being decoded
DataResult_EofIsIoError(line) ==
  LET msg == ResponseData(line)
  IN [line |-> << line >>,
      kind |-> IF line = ZeroBytes THEN "IoError"
               ELSE IF msg.ok THEN "Ok" ELSE "JsonError",
      msg |-> msg.msg]

DataResult(line) ==
  LET msg == ResponseData(line)
  IN [line |-> << line >>,
      kind |-> IF msg.ok THEN "Ok" ELSE "JsonError",
      msg |-> msg.msg]

GetData ==
  /\ \/ pc \in {"Start", "Streaming"}
     \/ pc = "Returned" /\ result.kind = "Ok"
  /\ Len(gd) < MaxCalls
  /\ \/ \* read_until returns an I/O error
        /\ gd' = Append(gd, [line |-> << >>, kind |-> "IoError", msg |-> NoMsg])
        /\ pc' = "Streaming"
        /\ reader' = reader
     \/ \E line \in Available(reader) : \E trace \in TraceLevels(line) :
          /\ reader' = AfterRead(reader, line)
          /\ IF TracePanics(trace, line)
             THEN /\ pc' = "Panicked"
                  /\ gd' = Append(gd, [line |-> << line >>, kind |-> "Panic",
                                       msg |-> NoMsg])
             ELSE /\ pc' = "Streaming"
                  /\ gd' = Append(gd, DataResult(line))
  /\ data' = << >>
  /\ events' = << >>
  /\ result' = NoResult
  /\ UNCHANGED << out, flushed, cur, peer, codec >>

(***************************************************************************)
(* The codec on its own: one line is decoded against one of the unions,    *)
(* the decoded value is serialized, and the serialization is decoded       *)
(* against the same union.                                                 *)
(***************************************************************************)
\* objects with a discriminator no union knows
UnknownClassLines ==
  {Obj([NoFields EXCEPT !.class = JStr(c), !.mode = m]) :
     c \in {"FOO", "RAW", "subframe"}, m \in {Absent, JInt(3)}}

\* the lines of the catalogue that decode, with a key no schema knows added
ExtraFieldLines ==
  {[l EXCEPT !.o.extra = x] :
     l \in {k \in Lines : UnifiedResponse(k).ok},
     x \in {JInt(1), JStr("x"), JNull}}

\* TPV objects whose other fields are given and valid, with every wire
\* value offered for `mode`
TpvModeLines ==
  {Obj(TpvObj(m, JStr("/dev/ttyUSB0"), JFloat("66.123"))) : m \in ModeWire}

CodecLines ==
  Lines \cup UnknownClassLines \cup ExtraFieldLines \cup TpvModeLines

CodecInit ==
  /\ pc = "Start"
  /\ reader = FreshReader("all")
  /\ out = << >>
  /\ flushed = 0
  /\ data = << >>
  /\ events = << >>
  /\ result = NoResult
  /\ gd = << >>
  /\ cur = 1
  /\ peer = FreshConn
  /\ codec \in {[NoCodec EXCEPT !.stage = "input", !.line = l, !.union = u] :
                   l \in CodecLines, u \in Unions}

\* serde_json::from_slice(&line)
Decode ==
  /\ codec.stage = "input"
  /\ codec' = [codec EXCEPT !.stage = "decoded",
                            !.dec = DecodeAs(codec.union, codec.line)]
  /\ UNCHANGED << pc, reader, out, flushed, data, events, result, gd, cur, peer >>

\* serde_json::to_vec(&value) of the decoded value
Encode ==
  /\ codec.stage = "decoded"
  /\ codec.dec.ok
  /\ codec' = [codec EXCEPT !.stage = "encoded",
                            !.enc = << Serialize(codec.dec.msg) >>]
  /\ UNCHANGED << pc, reader, out, flushed, data, events, result, gd, cur, peer >>

\* serde_json::from_slice of the serialization
DecodeBack ==
  /\ codec.stage = "encoded"
  /\ codec' = [codec EXCEPT !.stage = "done",
                            !.back = DecodeAs(codec.union, codec.enc[1])]
  /\ UNCHANGED << pc, reader, out, flushed, data, events, result, gd, cur, peer >>

(***************************************************************************)
(* Two connections.  handshake and get_data keep all their state in their  *)
(* arguments (the reader and the writer of the connection) and in locals;  *)
(* the thread of the other connection runs when the scheduler switches.    *)
(***************************************************************************)
\* the state of the running connection
Running ==
  [pc |-> pc, reader |-> reader, out |-> out, flushed |-> flushed,
   data |-> data, events |-> events, result |-> result, gd |-> gd]

\* mutant: the two connections write to one shared writer
Switch_SharedWriter ==
  /\ pc' = peer.pc
  /\ reader' = peer.reader
  /\ data' = peer.data
  /\ events' = peer.events
  /\ result' = peer.result
  /\ gd' = peer.gd
  /\ peer' = Running
  /\ cur' = 3 - cur
  /\ UNCHANGED << out, flushed, codec >>

\* the scheduler runs the other connection's thread
Switch ==
  /\ pc' = peer.pc
  /\ reader' = peer.reader
  /\ out' = peer.out
  /\ flushed' = peer.flushed
  /\ data' = peer.data
  /\ events' = peer.events
  /\ result' = peer.result
  /\ gd' = peer.gd
  /\ peer' = Running
  /\ cur' = 3 - cur
  /\ UNCHANGED codec

TwoInit ==
  /\ pc = "Start"
  /\ reader = FreshReader("short")
  /\ out = << >>
  /\ flushed = 0
  /\ data = << >>
  /\ events = << >>
  /\ result = NoResult
  /\ gd = << >>
  /\ cur = 1
  /\ peer = [FreshConn EXCEPT !.reader = FreshReader("short")]
  /\ codec = NoCodec

CodecNext ==
  \/ Decode
  \/ Encode
  \/ DecodeBack

CodecSpec == CodecInit /\ [][CodecNext]_vars

Next ==
  \/ AwaitVersion
  \/ SendWatch
  \/ Flush
  \/ AwaitDevices
  \/ AwaitWatchAck
  \/ GetData

Spec == Init /\ [][Next]_vars

TwoNext ==
  \/ AwaitVersion
  \/ SendWatch
  \/ Flush
  \/ AwaitDevices
  \/ AwaitWatchAck
  \/ GetData
  \/ Switch

TwoSpec == TwoInit /\ [][TwoNext]_vars

(***************************************************************************)
(* Vocabulary of the properties.                                           *)
(***************************************************************************)
\* the line ends in LF or CRLF
Terminated(line) == line.term \in {"LF", "CRLF"}

\* the line is a JSON object whose discriminator is the string c
HasClass(line, c) == line.kind = "object" /\ line.o.class = JStr(c)

\* a wire flag counts as true only when it is the JSON value true; a missing
\* flag counts as false
WireTrue(v) == v = JBool(TRUE)

\* the line decodes against the handshake union to the given variant
DecodesTo(line, variant) ==
  ResponseHandshake(line).ok /\ ResponseHandshake(line).msg.variant = variant

\* the line decodes to a Version whose proto_major is at least 3
GoodVersion(line) ==
  DecodesTo(line, "Version") /\ line.o.proto_major.n >= 3

\* the watch line carries (enable, json, nmea) = (false, false, true)
WireFFT(line) ==
  /\ ~WireTrue(line.o.enable)
  /\ ~WireTrue(line.o.json)
  /\ WireTrue(line.o.nmea)

\* the k-th read step of the running handshake read a line and went on to
\* the next step (to Ok(()) for the third)
Passed(k) ==
  /\ Len(data) >= k
  /\ \/ Len(data) > k
     \/ pc \in {"SendWatch", "Flush", "AwaitDevices", "AwaitWatchAck"}
     \/ pc = "Returned" /\ result.kind \in {"Ok", "IoError"}

\* the number of events of the running handshake with the given operation
Count(op) == Cardinality({i \in 1..Len(events) : events[i].op = op})

(***************************************************************************)
(* C1.  For three lines, each ended by LF or CRLF, that decode to a        *)
(* Version with proto_major >= 3, then Devices, then a Watch whose         *)
(* (enable, json, nmea) is not (false, false, true), handshake returns Ok  *)
(* and the output holds exactly ENABLE_WATCH_CMD, written once.            *)
(***************************************************************************)
C1_HandshakeOk ==
  ( /\ Len(data) = 3
    /\ \A i \in 1..3 : Terminated(data[i])
    /\ GoodVersion(data[1])
    /\ DecodesTo(data[2], "Devices")
    /\ DecodesTo(data[3], "Watch")
    /\ ~WireFFT(data[3]) )
  => /\ pc = "Returned"
     /\ result = Res("Ok", << >>)
     /\ out = ENABLE_WATCH_CMD
     /\ Count("write") = 1

C1_Witness ==
  /\ Len(data) = 3
  /\ data[1].term = "CRLF"
  /\ data[3].o.enable = JBool(TRUE)
  /\ data[3].o.nmea = JBool(FALSE)
  /\ result.kind = "Ok"
  /\ out = ENABLE_WATCH_CMD

(***************************************************************************)
(* C2.  When the first line decodes to a Version with proto_major < 3,     *)
(* handshake returns UnsupportedGpsdProtocolVersion, the output has        *)
(* received no byte, and the read of that line is the only I/O operation.  *)
(***************************************************************************)
C2_UnsupportedVersion ==
  ( /\ Len(data) >= 1
    /\ DecodesTo(data[1], "Version")
    /\ data[1].o.proto_major.n < 3 )
  => /\ pc = "Returned"
     /\ result = Res("UnsupportedGpsdProtocolVersion", << >>)
     /\ out = << >>
     /\ flushed = 0
     /\ events = << Ev("read", TRUE) >>
     /\ Len(data) = 1

C2_Witness ==
  /\ Len(data) = 1
  /\ data[1].o.proto_major = JInt(2)
  /\ data[1].term = "CRLF"
  /\ result.kind = "UnsupportedGpsdProtocolVersion"

(***************************************************************************)
(* C3.  When the first line decodes to Devices or Watch, handshake returns *)
(* UnexpectedGpsdReply and the output has received no byte; and whenever   *)
(* a handshake has written anything, its first line was a Version with an  *)
(* acceptable major.                                                       *)
(***************************************************************************)
C3_UnexpectedFirstReply ==
  /\ ( /\ Len(data) >= 1
       /\ DecodesTo(data[1], "Devices") \/ DecodesTo(data[1], "Watch") )
     => /\ pc = "Returned"
        /\ result.kind = "UnexpectedGpsdReply"
        /\ out = << >>
        /\ Count("write") = 0
  /\ (gd = << >> /\ (out # << >> \/ Count("write") > 0))
     => (Len(data) >= 1 /\ GoodVersion(data[1]))

C3_Witness ==
  /\ Len(data) = 1
  /\ HasClass(data[1], "DEVICES")
  /\ result.kind = "UnexpectedGpsdReply"
  /\ out = << >>

IoOrder == << "read", "write", "flush", "read", "read" >>

C5_IoOrder ==
  /\ Len(events) <= Len(IoOrder)
  /\ \A i \in 1..Len(events) : events[i].op = IoOrder[i]
  /\ \A i \in 1..(Len(events) - 1) : events[i].ok
  /\ Len(events) >= 4 => (out = ENABLE_WATCH_CMD /\ flushed = Len(ENABLE_WATCH_CMD))

C5_Witness ==
  /\ Len(events) = 5
  /\ \A i \in 1..5 : events[i].ok
  /\ flushed = Len(ENABLE_WATCH_CMD)

(***************************************************************************)
(* C6.  The handshake is fail-fast and retry-free: no I/O operation        *)
(* follows a failed one; a step whose decode or match fails is the last    *)
(* step, and a handshake that returns after it returns that step's error;  *)
(* at most three lines are read, the command is written at most once, and  *)
(* Ok is returned only after all four steps succeeded.                     *)
(***************************************************************************)
Expected == << "Version", "Devices", "Watch" >>

\* the event that reads the k-th line
ReadEvent == << 1, 4, 5 >>

\* the error of the k-th step on the line it read ("" when the step passes)
StepError(k, line) ==
  IF ~ResponseHandshake(line).ok THEN "JsonError"
  ELSE IF ~DecodesTo(line, Expected[k]) THEN "UnexpectedGpsdReply"
  ELSE IF k = 1 /\ line.o.proto_major.n < 3 THEN "UnsupportedGpsdProtocolVersion"
  ELSE IF k = 3 /\ WireFFT(line) THEN "WatchFail"
  ELSE ""

ActivatedExpect(a) ==
  IF a.t = "absent" THEN "None"
  ELSE IF a.t = "str" THEN "Some"
  ELSE IF a.t = "int" THEN (IF a.n = 0 THEN "None" ELSE "fail")
  ELSE IF a.t = "bool" THEN "fail"
  ELSE ""

C7_Activated ==
  /\ \A i \in 1..Len(gd) :
       (gd[i].kind # "Panic" /\ gd[i].line # << >> /\ HasClass(gd[i].line[1], "DEVICE"))
       => LET a == gd[i].line[1].o.activated
              x == ActivatedExpect(a)
          IN /\ x = "None" => (gd[i].kind = "Ok" /\ gd[i].msg.activated = << None >>)
             /\ x = "Some" => (gd[i].kind = "Ok" /\ gd[i].msg.activated = << SomeStr(a.s) >>)
             /\ x = "fail" => gd[i].kind = "JsonError"
  /\ (Len(data) >= 2 /\ HasClass(data[2], "DEVICES") /\ data[2].o.devices.t = "arr")
     => LET items == data[2].o.devices.items
            xs == {ActivatedExpect(items[j]) : j \in 1..Len(items)}
        IN /\ xs \subseteq {"None", "Some"} => Passed(2)
           /\ "fail" \in xs
              => (pc = "Returned" /\ result.kind = "JsonError" /\ Len(data) = 2)

C7_Witness ==
  /\ Len(gd) = 2
  /\ gd[1].line # << >> /\ gd[2].line # << >>
  /\ gd[1].line[1].o.activated = JInt(0)
  /\ gd[1].msg.variant = "Device"
  /\ gd[1].msg.activated = << None >>
  /\ gd[2].line[1].o.activated = JInt(1)
  /\ gd[2].kind = "JsonError"

(***************************************************************************)
(* C8.  `mode` is decoded as a u8: for every wire integer n in 0..255      *)
(* decoding succeeds, with Fix2d for 2, Fix3d for 3 and NoFix for every    *)
(* other n; an integer above 255 fails the decode of the TPV line.         *)
(***************************************************************************)
ModeExpect(n) == IF n = 2 THEN "Fix2d" ELSE IF n = 3 THEN "Fix3d" ELSE "NoFix"

\* the get_data calls that read a TPV line whose mode is an integer
TpvIntCalls ==
  {i \in 1..Len(gd) :
     /\ gd[i].kind # "Panic" /\ gd[i].line # << >>
     /\ HasClass(gd[i].line[1], "TPV")
     /\ gd[i].line[1].o.mode.t = "int"}

WireMode(i) == gd[i].line[1].o.mode.n

C8_ModeU8 ==
  \A i \in TpvIntCalls :
    /\ (0 <= WireMode(i) /\ WireMode(i) <= 255)
       => (gd[i].kind = "Ok" /\ gd[i].msg.variant = "Tpv"
           /\ gd[i].msg.mode = ModeExpect(WireMode(i)))
    /\ WireMode(i) > 255 => gd[i].kind = "JsonError"

\* the claim as written: total over all non-negative integers
C8_ModeTotal ==
  \A i \in TpvIntCalls :
    WireMode(i) >= 0
    => (gd[i].kind = "Ok" /\ gd[i].msg.mode = ModeExpect(WireMode(i)))

C8_Witness ==
  /\ Len(gd) = 2
  /\ 1 \in TpvIntCalls /\ WireMode(1) = 99 /\ gd[1].msg.mode = "NoFix"
  /\ 2 \in TpvIntCalls /\ WireMode(2) = 3 /\ gd[2].msg.mode = "Fix3d"

(***************************************************************************)
(* C9.  For every line that is not one well-formed JSON object, handshake  *)
(* and get_data return JsonError and never panic, and in the first step of *)
(* the handshake nothing has been written.                                 *)
(***************************************************************************)
C9_MalformedIsJsonError ==
  /\ \A k \in 1..Len(data) :
       data[k].kind # "object"
       => /\ pc = "Returned"
          /\ result.kind = "JsonError"
          /\ k = 1 => out = << >>
  /\ \A i \in 1..Len(gd) :
       (gd[i].line # << >> /\ gd[i].line[1].kind # "object")
       => gd[i].kind = "JsonError"

(***************************************************************************)
(* C10.  Decoding dispatches on `class` alone: get_data succeeds only on a *)
(* line whose class is one of the ten payload tokens, and then with the    *)
(* variant of that name; a handshake step is passed only by a line whose   *)
(* class is the token of the variant the step expects; a line whose class  *)
(* is missing, no string, or no token of the active union is a decode      *)
(* failure.                                                                *)
(***************************************************************************)
DataTokens ==
  {"DEVICE", "TPV", "SKY", "PPS", "GST", "ATT", "IMU", "TOFF", "OSC", "POLL"}

HandshakeTokens == {"VERSION", "DEVICES", "WATCH"}

VariantOf(c) ==
  CASE c = "VERSION" -> "Version" [] c = "DEVICES" -> "Devices"
    [] c = "WATCH" -> "Watch" [] c = "DEVICE" -> "Device"
    [] c = "TPV" -> "Tpv" [] c = "SKY" -> "Sky" [] c = "PPS" -> "Pps"
    [] c = "GST" -> "Gst" [] c = "ATT" -> "Att" [] c = "IMU" -> "Imu"
    [] c = "TOFF" -> "Toff" [] c = "OSC" -> "Osc" [] c = "POLL" -> "Poll"
    [] OTHER -> ""

\* the discriminator of an object line, "" when missing or no string
ClassOf(line) == IF line.o.class.t = "str" THEN line.o.class.s ELSE ""

C10_Dispatch ==
  /\ \A i \in 1..Len(gd) :
       (gd[i].kind # "Panic" /\ gd[i].line # << >> /\ gd[i].line[1].kind = "object")
       => LET c == ClassOf(gd[i].line[1])
          IN /\ gd[i].kind \in {"Ok", "JsonError"}
             /\ gd[i].kind = "Ok" => (c \in DataTokens /\ gd[i].msg.variant = VariantOf(c))
             /\ c \notin DataTokens => (gd[i].kind = "JsonError" /\ gd[i].msg = NoMsg)
  /\ \A k \in 1..Len(data) :
       data[k].kind = "object"
       => LET c == ClassOf(data[k])
          IN /\ Passed(k) => VariantOf(c) = Expected[k]
             /\ c \notin HandshakeTokens
                => (pc = "Returned" /\ result.kind = "JsonError" /\ Len(data) = k)
             /\ (c \in HandshakeTokens /\ VariantOf(c) # Expected[k])
                => /\ pc = "Returned" /\ Len(data) = k
                   /\ result.kind \in {"JsonError", "UnexpectedGpsdReply"}
             /\ (pc = "Returned" /\ Len(data) = k /\ result.kind = "UnexpectedGpsdReply")
                => (c \in HandshakeTokens /\ VariantOf(c) # Expected[k]
                    /\ result.text = << data[k] >>)

C10_Witness ==
  /\ Len(gd) = 2
  /\ gd[1].line # << >> /\ gd[2].line # << >>
  /\ HasClass(gd[1].line[1], "IMU") /\ gd[1].msg.variant = "Imu"
  /\ HasClass(gd[2].line[1], "SUBFRAME") /\ gd[2].kind = "JsonError"
(***************************************************************************)
(* C11.  Against the unified union an object whose discriminator is        *)
(* SUBFRAME decodes, whatever its other fields, to the Subframe variant    *)
(* holding these fields; every other discriminator that names no variant   *)
(* of the union is a decode failure.                                       *)
(***************************************************************************)
\* the discriminators of the message classes the unified union models
ModelledTokens ==
  {"VERSION", "DEVICES", "WATCH", "DEVICE", "TPV", "SKY", "PPS", "GST", "ATT",
   "IMU", "TOFF", "OSC", "POLL"}

\* the codec has decoded an object with a string discriminator against the
\* unified union
UnifiedDecoded ==
  /\ codec.stage # "input" /\ codec.stage # "idle"
  /\ codec.union = "UnifiedResponse"
  /\ codec.line.kind = "object"
  /\ codec.line.o.class.t = "str"

\* the decoded value is the opaque variant holding the fields of the line
Captured ==
  /\ codec.dec.ok
  /\ codec.dec.msg.variant = "Subframe"
  /\ \A k \in DOMAIN NoFields \ {"class"} : codec.dec.msg.raw[k] = codec.line.o[k]

C11_SubframeOnly ==
  UnifiedDecoded
  => /\ codec.line.o.class.s = "SUBFRAME" => Captured
     /\ codec.line.o.class.s \notin ModelledTokens \cup {"SUBFRAME"} => ~codec.dec.ok

\* the claim as stated: every discriminator that names no modelled class is
\* captured
C11_UnknownCaptured ==
  (UnifiedDecoded /\ codec.line.o.class.s \notin ModelledTokens) => Captured

C11_Witness ==
  /\ UnifiedDecoded
  /\ codec.line.o.class.s = "SUBFRAME"
  /\ codec.line.o.mode = JInt(3)
  /\ codec.dec.msg.raw.mode = JInt(3)
  /\ codec.dec.msg.variant = "Subframe"

(***************************************************************************)
(* C12.  Unknown fields are ignored: in each of the unions, a line with a  *)
(* key that the schema of its class does not name decodes exactly as the   *)
(* same line without that key does (to the same value when that one        *)
(* decodes).  Subframe has no schema: it holds whatever the object has.    *)
(***************************************************************************)
\* the line the codec was given, without the unknown key
WithoutExtra == [codec.line EXCEPT !.o.extra = Absent]

C12_UnknownFieldsIgnored ==
  ( /\ codec.stage \notin {"idle", "input"}
    /\ codec.line.kind = "object"
    /\ codec.line.o.extra # Absent
    /\ DecodeAs(codec.union, WithoutExtra).ok
    /\ DecodeAs(codec.union, WithoutExtra).msg.variant # "Subframe" )
  => /\ codec.dec.ok
     /\ codec.dec.msg = DecodeAs(codec.union, WithoutExtra).msg

C12_Witness ==
  /\ codec.stage = "decoded"
  /\ codec.union = "ResponseData"
  /\ codec.line.o.extra = JStr("x")
  /\ codec.line.o.class = JStr("TPV")
  /\ codec.line.o.lat = JFloat("66.123")
  /\ codec.dec.ok
  /\ codec.dec.msg.mode = "Fix3d"
  /\ codec.dec.msg.lat = SomeStr("66.123")

(***************************************************************************)
(* C13.  Every get_data call that reads a line returns what the decode of  *)
(* that line alone gives: the decode error when the line does not decode,  *)
(* whatever the calls before it read, and the caller can go on to the next *)
(* call.                                                                   *)
(***************************************************************************)
C13_OneLinePerCall ==
  /\ \A i \in 1..Len(gd) :
       gd[i].line # << >> => gd[i] = DataResult(gd[i].line[1])
  /\ gd # << >> => pc = "Streaming"

(***************************************************************************)
(* C14.  A failed read is an IoError and nothing else: in each of the      *)
(* three read steps of handshake the failed read is the last I/O           *)
(* operation, no line was taken for it, and handshake returns IoError; a   *)
(* get_data call whose read fails returns IoError and has decoded nothing. *)
(***************************************************************************)
\* the read steps of the running handshake that took a line
ReadsOk == Cardinality({i \in 1..Len(events) : events[i].op = "read" /\ events[i].ok})

C14_ReadErrorIsIoError ==
  /\ \A i \in 1..Len(events) :
       (events[i].op = "read" /\ ~events[i].ok)
       => /\ i = Len(events)
          /\ pc = "Returned"
          /\ result = Res("IoError", << >>)
  /\ Len(data) = ReadsOk
  /\ \A i \in 1..Len(gd) :
       /\ gd[i].line = << >> <=> gd[i].kind = "IoError"
       /\ gd[i].line = << >> => (gd[i].msg = NoMsg /\ (i < Len(gd) \/ pc = "Streaming"))

\* the read of the third handshake step failed
C14_Witness ==
  /\ Len(events) = 5
  /\ ~events[5].ok
  /\ Len(data) = 2
  /\ result = Res("IoError", << >>)
  /\ out = ENABLE_WATCH_CMD

(***************************************************************************)
(* C15.  When the write of the command fails, or its flush fails,          *)
(* handshake returns IoError having read the Version line only: no second  *)
(* or third line is taken from the reader and Ok is not returned.          *)
(***************************************************************************)
C15_WriteFlushError ==
  (\E i \in 1..Len(events) : events[i].op \in {"write", "flush"} /\ ~events[i].ok)
  => /\ pc = "Returned"
     /\ result = Res("IoError", << >>)
     /\ Len(data) = 1
     /\ Count("read") = 1
     /\ reader.pos <= 1

\* the write failed after the writer took part of the command
C15_Witness ==
  /\ Len(events) = 2
  /\ ~events[2].ok
  /\ Len(out) = 5
  /\ result = Res("IoError", << >>)
  /\ reader.pos = 1

(***************************************************************************)
(* C20.  When the second line decodes to a variant of the handshake union  *)
(* other than Devices, or the third to one other than Watch, handshake     *)
(* returns UnexpectedGpsdReply; the output then holds exactly              *)
(* ENABLE_WATCH_CMD, written once and flushed, and the offending line is   *)
(* the last one read.                                                      *)
(***************************************************************************)
\* the k-th line decodes to a variant that step k does not expect
WrongVariant(k) ==
  /\ Len(data) >= k
  /\ ResponseHandshake(data[k]).ok
  /\ ResponseHandshake(data[k]).msg.variant # Expected[k]

C20_UnexpectedLaterReply ==
  \A k \in {2, 3} :
    WrongVariant(k)
    => /\ pc = "Returned"
       /\ result.kind = "UnexpectedGpsdReply"
       /\ out = ENABLE_WATCH_CMD
       /\ flushed = Len(ENABLE_WATCH_CMD)
       /\ Count("write") = 1
       /\ Len(data) = k
       /\ Len(events) = ReadEvent[k]
       /\ reader.pos = k

\* a second Version line where Devices is expected
C20_Witness ==
  /\ Len(data) = 2
  /\ DecodesTo(data[2], "Version")
  /\ result.kind = "UnexpectedGpsdReply"
  /\ out = ENABLE_WATCH_CMD

(***************************************************************************)
(* C16.  Round trip: a decoded value, serialized and decoded again against *)
(* the same union, decodes, and to the same value.                         *)
(***************************************************************************)
C16_RoundTrip ==
  codec.stage = "done" => (codec.back.ok /\ codec.back.msg = codec.dec.msg)

(***************************************************************************)
(* C18.  get_data on a TPV line whose mode is a u8 and whose optional      *)
(* fields are absent or well typed returns the Tpv variant with the        *)
(* coerced mode, every optional field that the line gives holding the      *)
(* given value and every optional field that the line lacks None.          *)
(***************************************************************************)
\* the get_data calls that read a line of the given class and did not panic
CallsOn(class) ==
  {i \in 1..Len(gd) :
     /\ gd[i].kind # "Panic" /\ gd[i].line # << >>
     /\ HasClass(gd[i].line[1], class)}

\* the optional value a wire value gives
Given(v) ==
  CASE v.t = "absent" -> None
    [] v.t = "str" -> SomeStr(v.s)
    [] v.t = "float" -> SomeStr(v.s)
    [] v.t = "int" -> SomeNum(v.n)

C18_Tpv ==
  \A i \in CallsOn("TPV") :
    LET o == gd[i].line[1].o
    IN ( /\ o.mode.t = "int" /\ o.mode.n \in 0..U8_MAX
         /\ o.device.t \in {"absent", "str"}
         /\ o.lat.t \in {"absent", "int", "float"} )
       => /\ gd[i].kind = "Ok"
          /\ gd[i].msg.variant = "Tpv"
          /\ gd[i].msg.mode = ModeExpect(o.mode.n)
          /\ gd[i].msg.device = Given(o.device)
          /\ gd[i].msg.lat = Given(o.lat)

\* {"class":"TPV","mode":3,"lat":66.123}
C18_Witness ==
  /\ Len(gd) = 1
  /\ gd[1].line = << Line("object", "CRLF", TRUE,
                          TpvObj(JInt(3), Absent, JFloat("66.123"))) >>
  /\ gd[1].kind = "Ok"
  /\ gd[1].msg.mode = "Fix3d"
  /\ gd[1].msg.lat = SomeStr("66.123")
  /\ gd[1].msg.device = None

(***************************************************************************)
(* C19.  get_data on a SKY line returns the Sky variant whose satellites   *)
(* are the rows of the line, as many and in the same order, each with its  *)
(* PRN, `used` and optional fields as given; a row without `used` makes    *)
(* the line a decode failure; a line without `satellites` gives None.      *)
(***************************************************************************)
\* the row is one the schema takes
GoodRow(row) ==
  /\ row.PRN.t = "int" /\ row.PRN.n \in (-I16_MAX - 1)..I16_MAX
  /\ row.used.t = "bool"
  /\ row.el.t \in {"absent", "int", "float"}

C19_Sky ==
  \A i \in CallsOn("SKY") :
    LET o == gd[i].line[1].o
        sats == o.satellites
        rows == gd[i].msg.satellites.rows
    IN o.device.t \in {"absent", "str"}
       => /\ sats.t = "absent"
             => /\ gd[i].kind = "Ok"
                /\ gd[i].msg.variant = "Sky"
                /\ gd[i].msg.satellites = NoSats
          /\ (sats.t = "arr" /\ \E j \in 1..Len(sats.items) :
                                   sats.items[j].used.t = "absent")
             => gd[i].kind = "JsonError"
          /\ (sats.t = "arr" /\ \A j \in 1..Len(sats.items) : GoodRow(sats.items[j]))
             => /\ gd[i].kind = "Ok"
                /\ gd[i].msg.variant = "Sky"
                /\ gd[i].msg.device = Given(o.device)
                /\ gd[i].msg.satellites.some
                /\ Len(rows) = Len(sats.items)
                /\ \A j \in 1..Len(rows) :
                     /\ rows[j].prn = sats.items[j].PRN.n
                     /\ rows[j].used = (sats.items[j].used = JBool(TRUE))
                     /\ rows[j].el = Given(sats.items[j].el)

\* two rows, PRN 123 first
C19_Witness ==
  /\ Len(gd) = 1
  /\ gd[1].kind = "Ok"
  /\ gd[1].msg.variant = "Sky"
  /\ gd[1].msg.satellites.some
  /\ Len(gd[1].msg.satellites.rows) = 2
  /\ gd[1].msg.satellites.rows[1] = [prn |-> 123, used |-> TRUE, el |-> SomeStr("1.0")]
  /\ gd[1].msg.satellites.rows[2] = [prn |-> 7, used |-> FALSE, el |-> None]

(***************************************************************************)
(* C17.  Two connections, each with a reader and a writer of its own, run  *)
(* handshake and get_data in any interleaving: a step of one connection    *)
(* leaves the state of the other as it is, and what each connection has    *)
(* returned and written is what its own lines and the outcomes of its own  *)
(* I/O operations give when it runs alone.                                 *)
(***************************************************************************)
\* the connection has read, written and returned what its own lines and I/O
\* outcomes give
ConnAlone(st) ==
  /\ \E k \in 0..Len(ENABLE_WATCH_CMD) : st.out = SubSeq(ENABLE_WATCH_CMD, 1, k)
  /\ st.flushed \in {0, Len(st.out)}
  /\ Len(st.data) >= 2 => st.out = ENABLE_WATCH_CMD
  /\ (st.out # << >>) => (st.gd # << >> \/ Len(st.events) >= 2)
  /\ st.gd = << >>
     => st.reader.pos = Cardinality({k \in 1..Len(st.data) : st.data[k] # ZeroBytes})
  /\ st.reader.pos <= Len(st.data) + Len(st.gd) + (IF st.gd = << >> THEN 0 ELSE 3)
  /\ \A k \in 1..Len(st.data) :
       StepError(k, st.data[k]) # ""
       => /\ Len(st.data) = k
          /\ st.pc \in {"Returned", "Panicked"}
          /\ st.pc = "Returned" => st.result.kind = StepError(k, st.data[k])
  /\ (\E i \in 1..Len(st.events) : ~st.events[i].ok)
     => st.result = Res("IoError", << >>)
  /\ st.result.kind = "Ok"
     => /\ Len(st.data) = 3 /\ \A k \in 1..3 : StepError(k, st.data[k]) = ""
        /\ st.out = ENABLE_WATCH_CMD
  /\ \A i \in 1..Len(st.gd) :
       (st.gd[i].line # << >> /\ st.gd[i].kind # "Panic")
       => st.gd[i] = DataResult(st.gd[i].line[1])

C17_Independent ==
  [][ /\ cur' = cur => peer' = peer
      /\ cur' # cur => (peer' = Running /\ Running' = peer)
      /\ ConnAlone(Running)'
      /\ ConnAlone(peer)' ]_vars

\* one connection is parked in the middle of its handshake, the command
\* written to its output; the other has streamed a line and written nothing
C17_Witness ==
  /\ cur = 2
  /\ peer.pc = "AwaitDevices"
  /\ peer.out = ENABLE_WATCH_CMD
  /\ Len(gd) = 1
  /\ gd[1].kind = "Ok"
  /\ out = << >>

(***************************************************************************)
(* C21: the text carried by UnexpectedGpsdReply and by WatchFail is the    *)
(* line read at the failing step, terminator included: the last line the   *)
(* handshake read, which is the line of step k when k lines were read,     *)
(* and it carries no other line.                                           *)
(***************************************************************************)
CarriesText == pc = "Returned" /\ result.kind \in {"UnexpectedGpsdReply", "WatchFail"}

C21_ErrorText ==
  CarriesText =>
    /\ data # << >>
    /\ Len(data) = ReadsOk
    /\ result.text = << data[Len(data)] >>
    /\ result.text[1].term = data[Len(data)].term
    /\ result.kind = "WatchFail" => Len(data) = 3

\* the third line, ended by CR LF, is refused, and it differs from both
\* lines read before it
C21_Witness ==
  /\ CarriesText
  /\ Len(data) = 3
  /\ data[3].term = "CRLF"
  /\ data[3] # data[1]
  /\ data[3] # data[2]
  /\ result.text = << data[3] >>

(***************************************************************************)
(* C22: the two phases decode against separate closed unions.  A line of   *)
(* a payload class read at a handshake step, even one get_data would       *)
(* decode, makes handshake return JsonError at that step, never            *)
(* UnexpectedGpsdReply, and is never passed; a VERSION, DEVICES or WATCH   *)
(* line read by get_data, even one handshake would take, is a JsonError    *)
(* and yields no ResponseData value.                                       *)
(***************************************************************************)
PayloadLine(line) == line.kind = "object" /\ ClassOf(line) \in DataTokens

HandshakeLine(line) == line.kind = "object" /\ ClassOf(line) \in HandshakeTokens

C22_SeparateUnions ==
  /\ \A k \in 1..Len(data) :
       PayloadLine(data[k])
       => /\ k = Len(data)
          /\ pc = "Returned"
          /\ result = Res("JsonError", << >>)
          /\ ~Passed(k)
  /\ \A i \in 1..Len(gd) :
       (gd[i].line # << >> /\ HandshakeLine(gd[i].line[1]))
       => /\ gd[i].kind = "JsonError"
          /\ gd[i].msg = NoMsg

\* after a version that was taken, the second step reads a TPV line that
\* get_data would decode
C22_Witness ==
  /\ Len(data) = 2
  /\ HasClass(data[2], "TPV")
  /\ ResponseData(data[2]).ok
  /\ pc = "Returned"
  /\ result.kind = "JsonError"

(***************************************************************************)
(* C23: the only wire values of `activated` that fail the decode are       *)
(* those that are no string, not the integer 0 and not null: a DEVICE line *)
(* is a JsonError exactly for such a value, and null decodes to None as    *)
(* the absent field and the integer 0 do; likewise for the devices of a    *)
(* DEVICES line read at the second step of the handshake.                  *)
(***************************************************************************)
\* the wire values the statement has decode to None
NoneOnWire(a) == a.t \in {"absent", "null"} \/ (a.t = "int" /\ a.n = 0)

\* the wire values the statement has accepted
ActivatedAccepted(a) == a.t = "str" \/ NoneOnWire(a)

C23_NullActivated ==
  /\ \A i \in 1..Len(gd) :
       (gd[i].kind # "Panic" /\ gd[i].line # << >> /\ HasClass(gd[i].line[1], "DEVICE"))
       => LET a == gd[i].line[1].o.activated
          IN /\ gd[i].kind = "JsonError" <=> ~ActivatedAccepted(a)
             /\ NoneOnWire(a) => gd[i].msg.activated = << None >>
  /\ (Len(data) >= 2 /\ HasClass(data[2], "DEVICES") /\ data[2].o.devices.t = "arr")
     => LET items == data[2].o.devices.items
        IN (\A j \in 1..Len(items) : ActivatedAccepted(items[j])) <=> Passed(2)

(***************************************************************************)
(* C24: a handshake that returns Ok has consumed the first three lines of  *)
(* the input and nothing after the third, so that the first get_data on    *)
(* the same reader is given the fourth line and every later call the line  *)
(* after: no line is lost or skipped between handshake and streaming.      *)
(***************************************************************************)
\* the get_data calls that were given bytes
Consumed ==
  Cardinality({i \in 1..Len(gd) : gd[i].line # << >> /\ gd[i].line[1] # ZeroBytes})

\* get_data has been called after a handshake: only one that returned Ok
\* is followed by get_data, and it has written the whole watch command
AfterHandshake == Len(gd) >= 1 /\ out # << >>

C24_NoLineLost ==
  /\ (pc = "Returned" /\ result.kind = "Ok")
     => /\ Len(data) = 3
        /\ ReadsOk = 3
        /\ reader.pos = 3
        /\ out = ENABLE_WATCH_CMD
  /\ AfterHandshake => reader.pos = 3 + Consumed
  /\ (Len(gd) >= 1 /\ ~AfterHandshake) => reader.pos = Consumed

\* the first get_data after a handshake decodes the fourth line, a TPV
C24_Witness ==
  /\ AfterHandshake
  /\ Len(gd) = 1
  /\ gd[1].kind = "Ok"
  /\ gd[1].msg.variant = "Tpv"
  /\ reader.pos = 4

(***************************************************************************)
(* C25: at the end of the stream, where the read returns zero bytes and no *)
(* I/O error, get_data and every read step of handshake return JsonError,  *)
(* not IoError, and consume nothing: every further get_data whose read     *)
(* does not fail returns the same error, and the caller that goes on after *)
(* an error, as the loop of demo_forever does, stays in its loop.          *)
(***************************************************************************)
\* the get_data calls that read zero bytes
AtEnd == {i \in 1..Len(gd) : gd[i].line = << ZeroBytes >>}

C25_EndOfStream ==
  /\ \A i \in AtEnd :
       /\ gd[i].kind = "JsonError"
       /\ gd[i].msg = NoMsg
       /\ \A j \in (i + 1)..Len(gd) : gd[j].line # << >> => gd[j] = gd[i]
  /\ AtEnd # {} => (pc = "Streaming" /\ reader.eof)
  /\ \A k \in 1..Len(data) :
       data[k] = ZeroBytes
       => /\ k = Len(data)
          /\ pc = "Returned"
          /\ result = Res("JsonError", << >>)
          /\ reader.eof
  /\ gd = << >> => reader.pos = Cardinality({k \in 1..Len(data) : data[k] # ZeroBytes})
  /\ gd # << >> => reader.pos = (IF AfterHandshake THEN 3 ELSE 0) + Len(gd)
                                  - Cardinality({i \in 1..Len(gd) : gd[i].line = << >>})
                                  - Cardinality(AtEnd)

\* after a handshake the daemon closes the connection: two calls of
\* get_data in a row read zero bytes and return the same JsonError
C25_Witness ==
  /\ AfterHandshake
  /\ Len(gd) = 2
  /\ AtEnd = {1, 2}
  /\ gd[2] = gd[1]
  /\ gd[2].kind = "JsonError"
  /\ reader.pos = 3
  /\ pc = "Streaming"

(***************************************************************************)
(* C26: `mode` is a required field of Tpv.  A TPV object without `mode`,   *)
(* or whose `mode` is no integer (a string, null, a boolean), fails to     *)
(* decode as a whole in every union, whatever valid fields it carries      *)
(* besides; no Tpv with a default mode comes out of it.                    *)
(***************************************************************************)
\* the codec has decoded a TPV object
TpvDecoded ==
  /\ codec.stage \in {"decoded", "encoded", "done"}
  /\ HasClass(codec.line, "TPV")

C26_ModeRequired ==
  (TpvDecoded /\ codec.line.o.mode.t # "int")
  => /\ ~codec.dec.ok
     /\ codec.dec.msg = NoMsg
     /\ codec.dec.msg.variant # "Tpv"

\* a TPV object with a device and a latitude and no `mode`, which decodes
\* once a mode is put in, is refused by the payload union
C26_Witness ==
  /\ TpvDecoded
  /\ codec.union = "ResponseData"
  /\ codec.line.o.mode = Absent
  /\ codec.line.o.device.t = "str"
  /\ codec.line.o.lat.t = "float"
  /\ ResponseData([codec.line EXCEPT !.o.mode = JInt(1)]).ok
  /\ ~codec.dec.ok

====
